---- MODULE Spec2Model ----
(***************************************************************************)
(* Model of src/pa3.c: the TLB, the two-level page table with lazily       *)
(* allocated directories, the frame reference counts (mapcounts), the      *)
(* copy-on-write fault handler and switch_process (fork + context switch). *)
(*                                                                         *)
(* Conventions                                                             *)
(*  - An unsigned int is held as the two's-complement reading of its 32    *)
(*    bits, so -1 stands for 0xFFFFFFFF: 0 - 1 wraps to -1 and -1 + 1 to 0.*)
(*    Unsigned comparisons are written with U32Gt1 / zero tests.           *)
(*  - Directories live in a heap of blocks addressed 1..MaxAddr; NULL is 0.*)
(*    free() only removes the block from `live`: a slot that still holds   *)
(*    the address dangles.  What a released block holds afterwards is not  *)
(*    determined by the program: the block keeps its bytes or the          *)
(*    allocator's bookkeeping overwrites the start of it (Clobber), and a  *)
(*    later malloc() may hand the same block out again (MallocChoices).    *)
(*  - Memory obtained for the first time is zero-filled (ZeroDir);         *)
(*    recycled memory keeps what its previous user left.                   *)
(***************************************************************************)
EXTENDS Integers, Sequences, FiniteSets, TLC

\* ---- bounds (the real values live in vm.h: shift 4, 128 frames) --------
PTES_PER_PAGE_SHIFT == 1
NR_PAGEFRAMES == 3
MaxProcs == 3
MaxPid == 2
MaxVpn == 1
MaxSteps == 5

\* ---- constants of vm.h ---------------------------------------------------
ACCESS_READ == 1
ACCESS_WRITE == 2

NR_PTES_PER_PAGE == 2 ^ PTES_PER_PAGE_SHIFT
NR_TLB_ENTRIES == 2 ^ (PTES_PER_PAGE_SHIFT * 2)
NULL == 0
MaxAddr == MaxProcs * NR_PTES_PER_PAGE

Frames == 0 .. (NR_PAGEFRAMES - 1)
DirIdx == 0 .. (NR_PTES_PER_PAGE - 1)
TlbIdx == 0 .. (NR_TLB_ENTRIES - 1)
Vpns == 0 .. MaxVpn
Pids == 0 .. MaxPid
Rights == {ACCESS_READ, ACCESS_WRITE, ACCESS_READ + ACCESS_WRITE}
HEAD == 0

VARIABLES
    tlb,        \* tlb[i] = [valid, vpn, rw, pfn]
    mapcounts,  \* mapcounts[f]: unsigned int
    heap,       \* heap[a][j]: the pte_directory block at address a
    live,       \* addresses malloc'ed and not free'd
    brk,        \* number of addresses handed out so far
    procs,      \* procs[p] = [pid, outer_ptes]: the struct process objects
    lnext,      \* list_head.next of HEAD (= processes) and of every process
    lprev,      \* list_head.prev
    current,    \* index of the running process
    ptbr,       \* index of the process whose pagetable ptbr points at
    last,       \* the call just made and what it returned
    steps       \* number of calls made

vars == <<tlb, mapcounts, heap, live, brk, procs, lnext, lprev, current, ptbr, last, steps>>

\* ---- bit operations on 2-bit access masks ------------------------------
BitAnd(a, b) ==
    ((a % 2) * (b % 2)) + 2 * (((a \div 2) % 2) * ((b \div 2) % 2))

\* unsigned "x > 1"
U32Gt1(x) == x > 1 \/ x < 0

ZeroPte == [valid |-> FALSE, rw |-> 0, pfn |-> 0, private |-> 0]
ZeroDir == [j \in DirIdx |-> ZeroPte]
ZeroTlb == [valid |-> FALSE, vpn |-> 0, rw |-> 0, pfn |-> 0]

Vpn1(vpn) == vpn \div (2 ^ PTES_PER_PAGE_SHIFT)
Vpn2(vpn) == vpn % (2 ^ PTES_PER_PAGE_SHIFT)

\* The memory the page-table code works on, as one record.
Mem == [mapcounts |-> mapcounts, heap |-> heap, live |-> live, brk |-> brk,
        procs |-> procs, tlb |-> tlb]

\* ---- malloc / free -------------------------------------------------------
\* the blocks malloc may return: a block never handed out before or, when
\* the allocator recycles (reuse), any released one
MallocChoices(m, reuse) ==
    (IF reuse THEN (1 .. m.brk) \ m.live ELSE {})
        \cup (IF m.brk < MaxAddr THEN {m.brk + 1} ELSE {})

Malloc(m, a) ==
    [m EXCEPT !.live = @ \cup {a}, !.brk = IF a > @ THEN a ELSE @]

\* what a released block holds: its old bytes, or (clob) the first entry's
\* valid byte overwritten by the allocator's bookkeeping
Clobber(d, clob) == IF clob THEN [d EXCEPT ![0].valid = TRUE] ELSE d

Free(m, a, clob) ==
    [m EXCEPT !.live = @ \ {a}, !.heap[a] = Clobber(@, clob)]

\* ---- lookup_tlb ----------------------------------------------------------
\* tlb[i].rw & rw == rw parses as tlb[i].rw & (rw == rw)
TlbHit(t, i, vpn, rw) ==
    /\ t[i].vpn = vpn
    /\ BitAnd(t[i].rw, IF rw = rw THEN 1 ELSE 0) # 0
    /\ t[i].valid

lookup_tlb(t, vpn, rw) ==
    IF \E i \in TlbIdx : TlbHit(t, i, vpn, rw)
    THEN LET i == CHOOSE k \in TlbIdx :
                    /\ TlbHit(t, k, vpn, rw)
                    /\ \A l \in TlbIdx : l < k => ~TlbHit(t, l, vpn, rw)
         IN [hit |-> TRUE, pfn |-> t[i].pfn]
    ELSE [hit |-> FALSE, pfn |-> 0]

\* ---- insert_tlb ----------------------------------------------------------
insert_tlb(t, vpn, rw, pfn) ==
    LET firstInvalid == CHOOSE k \in TlbIdx :
                            /\ ~t[k].valid
                            /\ \A l \in TlbIdx : l < k => t[l].valid
        same == {k \in TlbIdx : t[k].valid /\ t[k].vpn = vpn}
        target == IF same # {}
                  THEN CHOOSE k \in same : \A l \in same : k <= l
                  ELSE firstInvalid
    IN [t EXCEPT ![target] = [valid |-> TRUE, vpn |-> vpn, rw |-> rw, pfn |-> pfn]]

\* ---- alloc_page ----------------------------------------------------------
FreeFrames(mc) == {f \in Frames : mc[f] = 0}

\* a scan that takes the last free frame instead of the first
FirstFreeLast(mc) ==
    IF FreeFrames(mc) = {} THEN NR_PAGEFRAMES
    ELSE CHOOSE f \in FreeFrames(mc) : \A g \in FreeFrames(mc) : f >= g

FirstFree(mc) ==
    IF FreeFrames(mc) = {} THEN NR_PAGEFRAMES
    ELSE CHOOSE f \in FreeFrames(mc) : \A g \in FreeFrames(mc) : f <= g

\* a failure reported as frame 0
AllocFailureAsFrame(m) == [mem |-> m, ret |-> 0]

\* line 157: nothing is touched and (unsigned)-1 comes back
AllocFailure(m) == [mem |-> m, ret |-> -1]

\* p: the process ptbr points at; a: the block malloc returns if it is called
alloc_page(m, p, vpn, rw, a) ==
    LET pfn == FirstFree(m.mapcounts)
        vpn1 == Vpn1(vpn)
        vpn2 == Vpn2(vpn)
        slot == m.procs[p].outer_ptes[vpn1]
    IN IF pfn < NR_PAGEFRAMES
       THEN LET m1 == [m EXCEPT !.mapcounts[pfn] = @ + 1]
                m2 == IF slot = NULL
                      THEN LET mm == Malloc(m1, a)
                           IN [mm EXCEPT !.procs[p].outer_ptes[vpn1] = a,
                                         !.heap[a] = [j \in DirIdx |->
                                              [mm.heap[a][j] EXCEPT !.valid = FALSE]]]
                      ELSE m1
                addr == m2.procs[p].outer_ptes[vpn1]
            IN [mem |-> [m2 EXCEPT !.heap[addr][vpn2] =
                            [valid |-> TRUE, rw |-> rw, pfn |-> pfn, private |-> 0]],
                ret |-> pfn]
       ELSE AllocFailure(m)

\* ---- free_page -----------------------------------------------------------
\* an invalidation that ignores the frame's count
InvalidateAlways(t, vpn, count) ==
    [i \in TlbIdx |->
        IF t[i].vpn = vpn THEN [t[i] EXCEPT !.valid = FALSE] ELSE t[i]]

\* lines 187-191: count is mapcounts[pfn] after the decrement
InvalidateOnFree(t, vpn, count) ==
    [i \in TlbIdx |->
        IF t[i].vpn = vpn /\ count = 0
        THEN [t[i] EXCEPT !.valid = FALSE]
        ELSE t[i]]

\* clob: whether the allocator overwrites the start of the released block
free_page(m, p, vpn, clob) ==
    LET vpn1 == Vpn1(vpn)
        vpn2 == Vpn2(vpn)
        addr == m.procs[p].outer_ptes[vpn1]
        pfn == m.heap[addr][vpn2].pfn
        m1 == [m EXCEPT !.mapcounts[pfn] = @ - 1,
                        !.heap[addr][vpn2].valid = FALSE]
        is_ptes_empty == \A i \in DirIdx : ~m1.heap[addr][i].valid
        m2 == IF is_ptes_empty
              THEN Free(m1, addr, clob)
              ELSE m1
    IN [m2 EXCEPT !.tlb = InvalidateOnFree(m2.tlb, vpn, m2.mapcounts[pfn])]

\* whether free_page(vpn) releases the directory
FreesDirectory(m, p, vpn) ==
    LET addr == m.procs[p].outer_ptes[Vpn1(vpn)]
    IN \A i \in DirIdx : i # Vpn2(vpn) => ~m.heap[addr][i].valid

\* ---- handle_page_fault ---------------------------------------------------
\* a test that does not look at the backup
CowFaultAnyBackup(pte, rw) == BitAnd(pte.rw, rw) = 0

\* line 223: !(pte->rw & rw) && pte->private & rw
CowFault(pte, rw) ==
    BitAnd(pte.rw, rw) = 0 /\ BitAnd(pte.private, rw) # 0

handle_page_fault(m, p, vpn, rw) ==
    LET vpn1 == Vpn1(vpn)
        vpn2 == Vpn2(vpn)
        addr == m.procs[p].outer_ptes[vpn1]
    IN IF addr = NULL THEN [mem |-> m, ret |-> TRUE]
       ELSE IF ~m.heap[addr][vpn2].valid THEN [mem |-> m, ret |-> TRUE]
       ELSE LET pte == m.heap[addr][vpn2]
            IN IF CowFault(pte, rw)
               THEN LET m1 == [m EXCEPT !.heap[addr][vpn2].rw = pte.private,
                                        !.heap[addr][vpn2].private = 0]
                        m2 == IF U32Gt1(m1.mapcounts[pte.pfn])
                              THEN LET md == [m1 EXCEPT !.mapcounts[pte.pfn] = @ - 1]
                                       r == alloc_page(md, p, vpn, pte.private, NULL)
                                   IN [r.mem EXCEPT !.tlb = [i \in TlbIdx |->
                                          IF r.mem.tlb[i].valid /\ r.mem.tlb[i].vpn = vpn
                                          THEN [r.mem.tlb[i] EXCEPT !.pfn = r.ret]
                                          ELSE r.mem.tlb[i]]]
                              ELSE m1
                    IN [mem |-> [m2 EXCEPT !.tlb = [i \in TlbIdx |->
                                    IF m2.tlb[i].valid /\ m2.tlb[i].vpn = vpn
                                    THEN [m2.tlb[i] EXCEPT !.rw = rw]
                                    ELSE m2.tlb[i]]],
                        ret |-> TRUE]
               ELSE [mem |-> m, ret |-> FALSE]

\* ---- switch_process: the fork part ---------------------------------------
\* a protection that saves the rights and leaves them in place
CowProtectKeepRw(pte) ==
    IF BitAnd(pte.rw, ACCESS_WRITE) # 0
    THEN [pte EXCEPT !.private = pte.rw]
    ELSE pte

\* lines 297-300: save the rights and drop to read-only
CowProtect(pte) ==
    IF BitAnd(pte.rw, ACCESS_WRITE) # 0
    THEN [pte EXCEPT !.private = pte.rw, !.rw = ACCESS_READ]
    ELSE pte

\* one iteration of the copy loop, for every block malloc may return
ForkSlot(s, par, i, reuse) ==
    LET src == s.mem.procs[par].outer_ptes[i]
    IN IF src = NULL
       THEN {[s EXCEPT !.child[i] = NULL]}
       ELSE {LET mm == Malloc(s.mem, a)
                 nd == [j \in DirIdx |-> CowProtect(mm.heap[src][j])]
             IN [mem |-> [mm EXCEPT !.heap[src] = nd, !.heap[a] = nd],
                 child |-> [s.child EXCEPT ![i] = a]]
             : a \in MallocChoices(s.mem, reuse)}

RECURSIVE ForkCopy(_, _, _, _)
ForkCopy(S, par, i, reuse) ==
    IF i = NR_PTES_PER_PAGE THEN S
    ELSE ForkCopy(UNION {ForkSlot(s, par, i, reuse) : s \in S}, par, i + 1, reuse)

\* a fork that counts no reference for the child
ForkCountsNone(m, child) == m

\* lines 308-318: one increment per valid entry of the child
ForkCounts(m, child) ==
    [m EXCEPT !.mapcounts = [f \in Frames |->
        @[f] + Cardinality({ij \in DirIdx \X DirIdx :
                              /\ child[ij[1]] # NULL
                              /\ m.heap[child[ij[1]]][ij[2]].valid
                              /\ m.heap[child[ij[1]]][ij[2]].pfn = f})]]

\* every memory the fork of process par into a new process with pid can leave
Fork(m, par, pid, reuse) ==
    {LET mc == ForkCounts(s.mem, s.child)
     IN [mc EXCEPT !.procs = Append(@, [pid |-> pid, outer_ptes |-> s.child])]
     : s \in ForkCopy({[mem |-> m, child |-> [i \in DirIdx |-> NULL]]}, par, 0, reuse)}

\* ---- the ready list (list_head.h) ----------------------------------------
\* list_for_each_entry over processes, stopping at the first pid match:
\* 0 (NULL) when the walk comes back to the head, -1 when it never does
RECURSIVE FindProcess(_, _, _)
FindProcess(pos, pid, fuel) ==
    IF pos = HEAD THEN NULL
    ELSE IF procs[pos].pid = pid THEN pos
    ELSE IF fuel = 0 THEN -1
    ELSE FindProcess(lnext[pos], pid, fuel - 1)

\* the ready list as the forward walk from the head sees it
RECURSIVE ReadyFrom(_, _)
ReadyFrom(pos, fuel) ==
    IF pos = HEAD \/ fuel = 0 THEN <<>>
    ELSE <<pos>> \o ReadyFrom(lnext[pos], fuel - 1)

Ready == ReadyFrom(lnext[HEAD], MaxProcs + 1)

RECURSIVE ReadyOfFrom(_, _, _)
ReadyOfFrom(nx, pos, fuel) ==
    IF pos = HEAD \/ fuel = 0 THEN <<>>
    ELSE <<pos>> \o ReadyOfFrom(nx, nx[pos], fuel - 1)

\* the same walk over the links nx
ReadyOf(nx) == ReadyOfFrom(nx, nx[HEAD], MaxProcs + 1)

\* list_add_tail(&new->list, &processes); nx, pv: the links before the call
ListAddTailNext(nx, pv, new) ==
    LET prev0 == pv[HEAD]
    IN [[nx EXCEPT ![new] = HEAD] EXCEPT ![prev0] = new]

ListAddTailPrev(nx, pv, new) ==
    LET prev0 == pv[HEAD]
    IN [[pv EXCEPT ![HEAD] = new] EXCEPT ![new] = prev0]

\* a switch that leaves the TLB alone
FlushNothing(t) == t

\* lines 328-329
FlushTlb(t) == [i \in TlbIdx |-> [t[i] EXCEPT !.valid = FALSE]]

\* ---- translate (the harness's page-table walk) ---------------------------
translate(m, p, vpn, rw) ==
    LET addr == m.procs[p].outer_ptes[Vpn1(vpn)]
    IN /\ addr # NULL
       /\ m.heap[addr][Vpn2(vpn)].valid
       /\ BitAnd(m.heap[addr][Vpn2(vpn)].rw, rw) = rw

\* the entry of process p for vpn as the code reads it through the slot
\* (ZeroPte: no directory), in the memory (ps, hp)
PteOf(ps, hp, p, vpn) ==
    LET addr == ps[p].outer_ptes[Vpn1(vpn)]
    IN IF addr = NULL THEN ZeroPte ELSE hp[addr][Vpn2(vpn)]

Pte(p, vpn) == PteOf(procs, heap, p, vpn)

AllVpns == 0 .. (NR_PTES_PER_PAGE * NR_PTES_PER_PAGE - 1)

\* the whole page table of process p, entry by entry
PtView(p) == [vpn \in AllVpns |-> Pte(p, vpn)]

\* the k-th call of the walk-through "allocate VPN 0 and VPN 1 for writing,
\* fork to a new pid, write to VPN 0 in the child"
ScenarioStep(k, op, vpn, rw, pid, ret) ==
    \/ k = 1 /\ op = "alloc_page" /\ vpn = 0 /\ BitAnd(rw, ACCESS_WRITE) # 0
    \/ k = 2 /\ op = "alloc_page" /\ vpn = 1 /\ BitAnd(rw, ACCESS_WRITE) # 0
    \/ /\ k = 3 /\ op = "switch_process" /\ ret = 1
       /\ \A p \in 1 .. Len(procs) : procs[p].pid # pid
    \/ k = 4 /\ op = "handle_page_fault" /\ vpn = 0 /\ rw = ACCESS_WRITE

\* the record kept before any call
InitCall ==
    [op |-> "init", vpn |-> 0, rw |-> 0, pid |-> 0, ret |-> 0, out |-> 0,
     from |-> 0, pt |-> <<>>, mc |-> <<>>, rt |-> FALSE, scn |-> 0]

\* the record kept of a call: its name, arguments and return value; scn is
\* the number of calls made when they are exactly the first calls of the
\* walk-through, -1 otherwise
Call(op, vpn, rw, pid, ret, out) ==
    [op |-> op, vpn |-> vpn, rw |-> rw, pid |-> pid, ret |-> ret, out |-> out,
     from |-> 0, pt |-> <<>>, mc |-> <<>>, rt |-> FALSE,
     scn |-> IF last.scn = steps /\ ScenarioStep(steps + 1, op, vpn, rw, pid, ret)
             THEN steps + 1 ELSE -1]

B2I(b) == IF b THEN 1 ELSE 0

\* ---- initial state -------------------------------------------------------
\* one process, pid 0, running on an empty page table; nothing in the ready
\* list, the TLB or the frame table
Init ==
    /\ tlb = [i \in TlbIdx |-> ZeroTlb]
    /\ mapcounts = [f \in Frames |-> 0]
    /\ heap = [a \in 1 .. MaxAddr |-> ZeroDir]
    /\ live = {}
    /\ brk = 0
    /\ procs = <<[pid |-> 0, outer_ptes |-> [i \in DirIdx |-> NULL]]>>
    /\ lnext = [n \in 0 .. MaxProcs |-> n]
    /\ lprev = [n \in 0 .. MaxProcs |-> n]
    /\ current = 1
    /\ ptbr = 1
    /\ last = InitCall
    /\ steps = 0

SetMem(m) ==
    /\ tlb' = m.tlb
    /\ mapcounts' = m.mapcounts
    /\ heap' = m.heap
    /\ live' = m.live
    /\ brk' = m.brk
    /\ procs' = m.procs

\* ---- the calls the harness makes -----------------------------------------
LookupTlb(vpn, rw) ==
    /\ last.op = "init"
    /\ last' = Call("lookup_tlb", vpn, rw, 0, B2I(lookup_tlb(tlb, vpn, rw).hit),
                     lookup_tlb(tlb, vpn, rw).pfn)
    /\ steps' = steps + 1
    /\ UNCHANGED <<tlb, mapcounts, heap, live, brk, procs, lnext, lprev, current, ptbr>>

\* the harness caches a translation after a successful page-table walk
InsertTlb(vpn, rw) ==
    /\ steps < MaxSteps
    /\ translate(Mem, ptbr, vpn, rw)
    /\ tlb' = insert_tlb(tlb, vpn, rw, Pte(ptbr, vpn).pfn)
    /\ last' = Call("insert_tlb", vpn, rw, 0, 0, 0)
    /\ steps' = steps + 1
    /\ UNCHANGED <<mapcounts, heap, live, brk, procs, lnext, lprev, current, ptbr>>

AllocPageWith(vpn, rw, reuse) ==
    /\ steps < MaxSteps
    /\ \E a \in (IF procs[ptbr].outer_ptes[Vpn1(vpn)] = NULL /\ FreeFrames(mapcounts) # {}
                 THEN MallocChoices(Mem, reuse) ELSE {NULL}) :
          LET r == alloc_page(Mem, ptbr, vpn, rw, a)
          IN /\ SetMem(r.mem)
             /\ last' = Call("alloc_page", vpn, rw, 0, r.ret, 0)
    /\ steps' = steps + 1
    /\ UNCHANGED <<lnext, lprev, current, ptbr>>

AllocPage(vpn, rw) == AllocPageWith(vpn, rw, TRUE)

\* free_page is only called on a vpn the page table maps
FreePageWith(vpn, clobs) ==
    /\ steps < MaxSteps
    /\ procs[ptbr].outer_ptes[Vpn1(vpn)] # NULL
    /\ Pte(ptbr, vpn).valid
    /\ \E clob \in (IF FreesDirectory(Mem, ptbr, vpn) THEN clobs ELSE {FALSE}) :
          SetMem(free_page(Mem, ptbr, vpn, clob))
    /\ last' = Call("free_page", vpn, 0, 0, 0, B2I(FreesDirectory(Mem, ptbr, vpn)))
    /\ steps' = steps + 1
    /\ UNCHANGED <<lnext, lprev, current, ptbr>>

FreePage(vpn) == FreePageWith(vpn, BOOLEAN)

HandlePageFault(vpn, rw) ==
    /\ steps < MaxSteps
    /\ LET r == handle_page_fault(Mem, ptbr, vpn, rw)
       IN /\ SetMem(r.mem)
          /\ last' = Call("handle_page_fault", vpn, rw, 0, B2I(r.ret), 0)
    /\ steps' = steps + 1
    /\ UNCHANGED <<lnext, lprev, current, ptbr>>

\* lines 321-329, next: the process switched to, m: the memory after the fork
SwitchTo(m, next, pid, forked) ==
    /\ SetMem([m EXCEPT !.tlb = FlushTlb(m.tlb)])
    /\ lnext' = ListAddTailNext(lnext, lprev, current)
    /\ lprev' = ListAddTailPrev(lnext, lprev, current)
    /\ current' = next
    /\ ptbr' = next
    /\ last' = [Call("switch_process", 0, 0, pid, B2I(forked), 0) EXCEPT
                    !.from = current, !.pt = PtView(current), !.mc = mapcounts,
                    !.rt = /\ ~forked
                           /\ last.op = "switch_process"
                           /\ last.ret = 0
                           /\ last.from = next]
    /\ steps' = steps + 1

SwitchExisting(pid) ==
    /\ steps < MaxSteps
    /\ FindProcess(lnext[HEAD], pid, MaxProcs + 1) > 0
    /\ SwitchTo(Mem, FindProcess(lnext[HEAD], pid, MaxProcs + 1), pid, FALSE)

SwitchForkWith(pid, reuse) ==
    /\ steps < MaxSteps
    /\ FindProcess(lnext[HEAD], pid, MaxProcs + 1) = NULL
    /\ Len(procs) < MaxProcs
    /\ \E m \in Fork(Mem, current, pid, reuse) :
          SwitchTo(m, Len(procs) + 1, pid, TRUE)

SwitchFork(pid) == SwitchForkWith(pid, TRUE)

\* ---- the same calls in the most favourable surroundings -------------------
\* The harness allocates only where the page table has no mapping and never
\* switches to the pid that is running; the allocator never recycles a block
\* and leaves released bytes as they are.  Every behaviour of SpecDisciplined
\* is a behaviour of Spec.
AllocUnmapped(vpn, rw) ==
    /\ ~Pte(ptbr, vpn).valid
    /\ AllocPageWith(vpn, rw, FALSE)

FreeKeepingBytes(vpn) == FreePageWith(vpn, {FALSE})

SwitchOther(pid) ==
    /\ pid # procs[current].pid
    /\ SwitchExisting(pid)

ForkOther(pid) ==
    /\ pid # procs[current].pid
    /\ SwitchForkWith(pid, FALSE)

NextDisciplined ==
    \/ \E vpn \in Vpns, rw \in Rights : InsertTlb(vpn, rw)
    \/ \E vpn \in Vpns, rw \in Rights : AllocUnmapped(vpn, rw)
    \/ \E vpn \in Vpns : FreeKeepingBytes(vpn)
    \/ \E vpn \in Vpns, rw \in Rights : HandlePageFault(vpn, rw)
    \/ \E pid \in Pids : SwitchOther(pid)
    \/ \E pid \in Pids : ForkOther(pid)

SpecDisciplined == Init /\ [][NextDisciplined]_vars

Next ==
    \/ \E vpn \in Vpns, rw \in Rights : InsertTlb(vpn, rw)
    \/ \E vpn \in Vpns, rw \in Rights : AllocPage(vpn, rw)
    \/ \E vpn \in Vpns : FreePage(vpn)
    \/ \E vpn \in Vpns, rw \in Rights : HandlePageFault(vpn, rw)
    \/ \E pid \in Pids : SwitchExisting(pid)
    \/ \E pid \in Pids : SwitchFork(pid)

Spec == Init /\ [][Next]_vars

\* ---- the disciplined calls, started with two pages mapped -----------------
\* The state the first process is in after alloc_page(0, ACCESS_WRITE) and
\* alloc_page(1, ACCESS_WRITE); steps counts the calls made after these two,
\* which leaves room for two forks and two write faults.
TwoPagesMem ==
    LET m0 == [mapcounts |-> [f \in Frames |-> 0],
               heap |-> [a \in 1 .. MaxAddr |-> ZeroDir],
               live |-> {},
               brk |-> 0,
               procs |-> <<[pid |-> 0, outer_ptes |-> [i \in DirIdx |-> NULL]]>>,
               tlb |-> [i \in TlbIdx |-> ZeroTlb]]
        m1 == alloc_page(m0, 1, 0, ACCESS_WRITE, 1).mem
    IN alloc_page(m1, 1, 1, ACCESS_WRITE, NULL).mem

InitTwoPages ==
    /\ tlb = TwoPagesMem.tlb
    /\ mapcounts = TwoPagesMem.mapcounts
    /\ heap = TwoPagesMem.heap
    /\ live = TwoPagesMem.live
    /\ brk = TwoPagesMem.brk
    /\ procs = TwoPagesMem.procs
    /\ lnext = [n \in 0 .. MaxProcs |-> n]
    /\ lprev = [n \in 0 .. MaxProcs |-> n]
    /\ current = 1
    /\ ptbr = 1
    /\ last = [InitCall EXCEPT !.scn = -1]
    /\ steps = 0

SpecTwoPages == InitTwoPages /\ [][NextDisciplined]_vars

\* ---- lookup_tlb on its own: every TLB content the calls above can leave ---
\* (slots fill from index 0 and a used slot never returns to all-zero; valid
\* entries carry distinct vpns, insert_tlb keeps it so; the slots from
\* LookupSlots on are unused)
LookupSlots == 2

TlbEntries ==
    {ZeroTlb} \cup [valid : BOOLEAN, vpn : Vpns, rw : Rights, pfn : Frames]

TlbContents ==
    {t \in [TlbIdx -> TlbEntries] :
        /\ \A i \in TlbIdx : i >= LookupSlots => t[i] = ZeroTlb
        /\ \A i, k \in TlbIdx : (i < k /\ t[i] = ZeroTlb) => t[k] = ZeroTlb
        /\ \A i, k \in TlbIdx :
              (i # k /\ t[i].valid /\ t[k].valid) => t[i].vpn # t[k].vpn}

InitLookup ==
    /\ tlb \in TlbContents
    /\ mapcounts = [f \in Frames |-> 0]
    /\ heap = [a \in 1 .. MaxAddr |-> ZeroDir]
    /\ live = {}
    /\ brk = 0
    /\ procs = <<[pid |-> 0, outer_ptes |-> [i \in DirIdx |-> NULL]]>>
    /\ lnext = [n \in 0 .. MaxProcs |-> n]
    /\ lprev = [n \in 0 .. MaxProcs |-> n]
    /\ current = 1
    /\ ptbr = 1
    /\ last = InitCall
    /\ steps = 0

NextLookup == \E vpn \in Vpns, rw \in Rights : LookupTlb(vpn, rw)

SpecLookup == InitLookup /\ [][NextLookup]_vars

\* =========================================================================
\* Properties
\* =========================================================================
AllProcs == 1 .. Len(procs)

\* number of valid entries, over the page tables of all processes, whose pfn is f
ValidRefs(f) ==
    Cardinality({pv \in AllProcs \X AllVpns :
                    Pte(pv[1], pv[2]).valid /\ Pte(pv[1], pv[2]).pfn = f})

\* C1: frame conservation - between calls, for every frame F, mapcounts[F]
\* equals the number of valid page-table entries of all processes that map F.
C1_FrameConservation ==
    \A f \in Frames : mapcounts[f] = ValidRefs(f)

\* C2: right after a fork, every VPN that was valid in the parent is valid in
\* parent and child with the same pfn and rights exactly read-only; an entry
\* whose rights included write carries those rights as its backup in both, and
\* an entry that was read-only has an empty backup.
C2_ForkSharing ==
    [][(last'.op = "switch_process" /\ last'.ret = 1) =>
         \A vpn \in AllVpns : Pte(current, vpn).valid =>
            LET old == Pte(current, vpn)
                par == PteOf(procs', heap', current, vpn)
                chi == PteOf(procs', heap', current', vpn)
            IN /\ par.valid /\ chi.valid
               /\ par.pfn = chi.pfn
               /\ par.rw = ACCESS_READ /\ chi.rw = ACCESS_READ
               /\ IF BitAnd(old.rw, ACCESS_WRITE) # 0
                  THEN par.private = old.rw /\ chi.private = old.rw
                  ELSE par.private = 0 /\ chi.private = 0]_vars

CowProtected(e) ==
    e.valid /\ e.rw = ACCESS_READ /\ BitAnd(e.private, ACCESS_WRITE) # 0

\* C3: a write fault on a COW-protected entry reports success and leaves the
\* entry writable with an empty backup; with the frame's count above 1 the
\* entry moves to a frame that was free and the shared frame's count drops by
\* 1, with the count at 1 neither the pfn nor any count changes; the other
\* processes' entries for the vpn keep pfn and rights.
C3_CowResolution ==
    [][(/\ last'.op = "handle_page_fault"
        /\ last'.rw = ACCESS_WRITE
        /\ CowProtected(Pte(ptbr, last'.vpn))) =>
         LET vpn == last'.vpn
             old == Pte(ptbr, vpn)
             new == PteOf(procs', heap', ptbr, vpn)
         IN /\ last'.ret = 1
            /\ BitAnd(new.rw, ACCESS_WRITE) # 0
            /\ new.private = 0
            /\ U32Gt1(mapcounts[old.pfn]) =>
                  /\ new.pfn # old.pfn
                  /\ mapcounts[new.pfn] = 0
                  /\ mapcounts'[old.pfn] = mapcounts[old.pfn] - 1
            /\ mapcounts[old.pfn] = 1 =>
                  /\ new.pfn = old.pfn
                  /\ mapcounts' = mapcounts
            /\ \A q \in AllProcs \ {ptbr} :
                  /\ PteOf(procs', heap', q, vpn).pfn = Pte(q, vpn).pfn
                  /\ PteOf(procs', heap', q, vpn).rw = Pte(q, vpn).rw]_vars

\* C4: whenever a frame is free, alloc_page returns the smallest free frame,
\* sets its count to 1, changes no other count, and leaves the entry for vpn
\* valid with the requested rights, that pfn and an empty backup.
C4_AllocDeterminism ==
    [][(last'.op = "alloc_page" /\ FreeFrames(mapcounts) # {}) =>
         LET f == last'.ret
         IN /\ f \in FreeFrames(mapcounts)
            /\ \A g \in FreeFrames(mapcounts) : f <= g
            /\ mapcounts' = [mapcounts EXCEPT ![f] = 1]
            /\ PteOf(procs', heap', ptbr, last'.vpn) =
                  [valid |-> TRUE, rw |-> last'.rw, pfn |-> f, private |-> 0]]_vars

\* alloc_page has just handed out frame 0 again while frame 1 stays in use
C4_Witness ==
    /\ last.op = "alloc_page"
    /\ last.ret = 0
    /\ mapcounts[1] >= 1
    /\ Pte(ptbr, last.vpn).pfn = 0

\* C5: between calls, every valid TLB entry (vpn, pfn, R) has a valid entry in
\* the current page table for vpn with the same pfn and rights including R.
C5_TlbConsistency ==
    \A i \in TlbIdx : tlb[i].valid =>
        LET e == Pte(ptbr, tlb[i].vpn)
        IN /\ procs[ptbr].outer_ptes[Vpn1(tlb[i].vpn)] # NULL
           /\ e.valid
           /\ e.pfn = tlb[i].pfn
           /\ BitAnd(e.rw, tlb[i].rw) = tlb[i].rw

\* C6: lookup_tlb(vpn, rw) hits, returning the cached pfn, exactly when a valid
\* entry has that vpn and cached rights that include every requested right.
C6_LookupSuperset ==
    last.op = "lookup_tlb" =>
        LET covering == {i \in TlbIdx : /\ tlb[i].valid
                                        /\ tlb[i].vpn = last.vpn
                                        /\ BitAnd(tlb[i].rw, last.rw) = last.rw}
        IN /\ last.ret = 1 <=> covering # {}
           /\ last.ret = 1 => \E i \in covering : last.out = tlb[i].pfn

\* C7: free_page(vpn) on an entry mapped to F takes exactly 1 off mapcounts[F]
\* (the unsigned decrement the code performs) and changes no other count; the
\* valid TLB entries for vpn become invalid exactly when F's count is 0
\* afterwards, and entries for other VPNs stay as they are.
C7_FreeReleasesOne ==
    [][last'.op = "free_page" =>
         LET vpn == last'.vpn
             F == Pte(ptbr, vpn).pfn
         IN /\ mapcounts' = [mapcounts EXCEPT ![F] = @ - 1]
            /\ \A i \in TlbIdx : (tlb[i].valid /\ tlb[i].vpn = vpn) =>
                  (~tlb'[i].valid <=> mapcounts'[F] = 0)
            /\ \A i \in TlbIdx : tlb[i].vpn # vpn => tlb'[i] = tlb[i]]_vars

\* free_page on a frame another process still maps: the cached entry survives
C7_Witness ==
    /\ last.op = "free_page"
    /\ \E i \in TlbIdx : tlb[i].valid /\ tlb[i].vpn = last.vpn
    /\ \E f \in Frames : mapcounts[f] >= 1

InSeq(x, sq) == \E k \in 1 .. Len(sq) : sq[k] = x

NoDup(sq) == \A k, l \in 1 .. Len(sq) : k # l => sq[k] # sq[l]

Without(sq, x) == SelectSeq(sq, LAMBDA y : y # x)

\* C8: a switch to a process found in the ready list makes it current and
\* takes it off the list, puts the previous current process at the tail and
\* keeps the order of the others; after any switch the current process is
\* not in the ready list and the list holds no process twice.
C8_SwitchExisting ==
    [][/\ (last'.op = "switch_process" /\ last'.ret = 0) =>
            LET target == FindProcess(lnext[HEAD], last'.pid, MaxProcs + 1)
                new == ReadyOf(lnext')
            IN /\ current' = target
               /\ ~InSeq(target, new)
               /\ new # <<>>
               /\ new[Len(new)] = current
               /\ SubSeq(new, 1, Len(new) - 1) = Without(Ready, target)
       /\ last'.op = "switch_process" =>
            /\ ~InSeq(current', ReadyOf(lnext'))
            /\ NoDup(ReadyOf(lnext'))]_vars

\* C9: switching from A to an existing B and back leaves A's page table and
\* every mapcount as before the first switch; ptbr follows the current
\* process; right after every switch_process every TLB entry is invalid.
C9_SwitchRoundTrip ==
    [][/\ ptbr' = current'
       /\ last'.op = "switch_process" => \A i \in TlbIdx : ~tlb'[i].valid
       /\ last'.rt =>
            /\ current' = last.from
            /\ [vpn \in AllVpns |-> PteOf(procs', heap', current', vpn)] = last.pt
            /\ mapcounts' = last.mc]_vars

\* back in A after A -> B -> A, with A holding a mapping and the TLB having
\* been filled and flushed on the way
C9_Witness ==
    /\ last.rt
    /\ \E vpn \in AllVpns : Pte(current, vpn).valid
    /\ \E i \in TlbIdx : tlb[i].rw # 0 /\ ~tlb[i].valid

\* C10: handle_page_fault on a vpn whose directory is absent or whose entry is
\* invalid reports failure and changes nothing.
C10_GenuineFault ==
    [][(last'.op = "handle_page_fault" /\ ~Pte(ptbr, last'.vpn).valid) =>
         /\ last'.ret = 0
         /\ UNCHANGED <<heap, procs, mapcounts, tlb>>]_vars

\* a valid entry without write access and without a backup that holds it
ReadOnlyEntry(e) ==
    /\ e.valid
    /\ BitAnd(e.rw, ACCESS_WRITE) = 0
    /\ BitAnd(e.private, ACCESS_WRITE) = 0

\* C11: handle_page_fault for a write on a valid entry that has no write
\* access and no backup holding write access reports failure and changes
\* neither the page tables, nor a mapcount, nor the TLB; and only a new
\* alloc_page gives write access to such an entry of any process.
C11_ProtectionViolation ==
    [][/\ (/\ last'.op = "handle_page_fault"
           /\ BitAnd(last'.rw, ACCESS_WRITE) # 0
           /\ ReadOnlyEntry(Pte(ptbr, last'.vpn))) =>
             /\ last'.ret = 0
             /\ UNCHANGED <<heap, procs, mapcounts, tlb>>
       /\ \A q \in AllProcs, vpn \in AllVpns :
             (ReadOnlyEntry(Pte(q, vpn)) /\ last'.op # "alloc_page") =>
                BitAnd(PteOf(procs', heap', q, vpn).rw, ACCESS_WRITE) = 0]_vars

\* a write fault has just been refused on a read-only page that two
\* processes share after a fork
C11_Witness ==
    /\ last.op = "handle_page_fault"
    /\ last.rw = ACCESS_WRITE
    /\ last.ret = 0
    /\ ReadOnlyEntry(Pte(ptbr, last.vpn))
    /\ Len(procs) >= 2
    /\ mapcounts[Pte(ptbr, last.vpn).pfn] = 2

PidsOf(ps) == [p \in 1 .. Len(ps) |-> ps[p].pid]

\* C13: switch_process(pid) forks only when no process, the current one
\* included, has that pid; after every switch_process all processes have
\* pairwise distinct pids.
C13_ForkOnlyNewPid ==
    [][last'.op = "switch_process" =>
         /\ last'.ret = 1 => \A p \in AllProcs : procs[p].pid # last'.pid
         /\ NoDup(PidsOf(procs'))]_vars

\* C14: from the empty system, alloc_page(0, write) returns frame 0 and
\* alloc_page(1, write) frame 1; the fork to a new pid leaves VPN 0 and VPN 1
\* read-only in the parent, the child's entries equal to the parent's, and
\* frames 0 and 1 at count 2; the child's write fault on VPN 0 leaves the
\* child's VPN 0 on frame 2 with write access, the parent's VPN 0 on frame 0
\* read-only, and frame 0 at count 1.
C14_Scenario ==
    [][/\ last'.scn = 1 => last'.ret = 0
       /\ last'.scn = 2 => last'.ret = 1
       /\ last'.scn = 3 =>
            /\ \A vpn \in {0, 1} :
                  LET par == PteOf(procs', heap', current, vpn)
                      chi == PteOf(procs', heap', current', vpn)
                  IN /\ par.valid
                     /\ par.rw = ACCESS_READ
                     /\ par.pfn = vpn
                     /\ chi = par
            /\ mapcounts'[0] = 2
            /\ mapcounts'[1] = 2
       /\ last'.scn = 4 =>
            LET par == PteOf(procs', heap', last.from, 0)
                chi == PteOf(procs', heap', current', 0)
            IN /\ last.from # current'
               /\ chi.valid
               /\ chi.pfn = 2
               /\ BitAnd(chi.rw, ACCESS_WRITE) # 0
               /\ par.valid
               /\ par.pfn = 0
               /\ par.rw = ACCESS_READ
               /\ mapcounts'[0] = 1]_vars

\* the four calls of the walk-through have been made
C14_Witness ==
    /\ last.scn = 4
    /\ last.op = "handle_page_fault"
    /\ last.ret = 1
    /\ Len(procs) = 2

\* C15: after free_page(vpn) that leaves the directory in place (another
\* entry of it is valid), the entry for vpn has valid = false, rw = 0, pfn = 0.
C15_FreeClearsPte ==
    [][(last'.op = "free_page" /\ last'.out = 0) =>
         LET e == PteOf(procs', heap', ptbr, last'.vpn)
         IN /\ ~e.valid
            /\ e.rw = 0
            /\ e.pfn = 0]_vars

\* C16: after every call, a directory slot of the current page table is
\* present exactly when an entry in its range is valid (an entry exists only
\* behind a present slot, so what can fail is a present slot without a valid
\* entry), and a present slot refers to a directory that has not been
\* released; alloc_page on an absent
\* slot creates the directory with every other entry invalid, and free_page
\* of the last valid entry leaves the slot absent.
C16_DirectoryLifecycle ==
    [][/\ \A i \in DirIdx :
             LET slot == procs'[ptbr'].outer_ptes[i]
             IN slot # NULL =>
                   /\ \E j \in DirIdx : heap'[slot][j].valid
                   /\ slot \in live'
       /\ (/\ last'.op = "alloc_page"
           /\ last'.ret # -1
           /\ procs[ptbr].outer_ptes[Vpn1(last'.vpn)] = NULL) =>
             /\ procs'[ptbr].outer_ptes[Vpn1(last'.vpn)] \in live'
             /\ \A vpn \in AllVpns :
                   (Vpn1(vpn) = Vpn1(last'.vpn) /\ vpn # last'.vpn) =>
                      ~PteOf(procs', heap', ptbr, vpn).valid
       /\ (last'.op = "free_page" /\ last'.out = 1) =>
             procs'[ptbr].outer_ptes[Vpn1(last'.vpn)] = NULL]_vars

\* C17: in every state, every entry of every process's page table that has a
\* non-empty backup has rights without write access.
C17_CowBackup ==
    \A p \in AllProcs, vpn \in AllVpns :
        Pte(p, vpn).private # 0 => BitAnd(Pte(p, vpn).rw, ACCESS_WRITE) = 0

\* after a second fork: one process has resolved its copy and is writable
\* again while another still holds the backup behind a read-only entry
C17_Witness ==
    /\ Len(procs) = 3
    /\ \E p, q \in AllProcs, vpn \in AllVpns :
          /\ Pte(p, vpn).valid /\ Pte(p, vpn).private # 0
          /\ Pte(q, vpn).valid /\ Pte(q, vpn).private = 0
          /\ BitAnd(Pte(q, vpn).rw, ACCESS_WRITE) # 0

\* C18: when handle_page_fault has resolved a write fault on a COW-protected
\* entry, every valid TLB entry for the vpn carries the pfn the page-table
\* entry now has and the rights restored to it (the former backup).
C18_TlbRefresh ==
    [][(/\ last'.op = "handle_page_fault"
        /\ last'.ret = 1
        /\ CowProtected(Pte(ptbr, last'.vpn))
        /\ CowFault(Pte(ptbr, last'.vpn), last'.rw)) =>
         LET old == Pte(ptbr, last'.vpn)
             new == PteOf(procs', heap', ptbr, last'.vpn)
         IN \A i \in TlbIdx : (tlb'[i].valid /\ tlb'[i].vpn = last'.vpn) =>
               /\ tlb'[i].pfn = new.pfn
               /\ tlb'[i].rw = old.private]_vars

\* C19: in every state, no valid entry of any process's page table has write
\* access while the count of the frame it maps is greater than 1 (unsigned).
C19_WriteIsolation ==
    \A p \in AllProcs, vpn \in AllVpns :
        LET e == Pte(p, vpn)
        IN (e.valid /\ BitAnd(e.rw, ACCESS_WRITE) # 0 /\ e.pfn \in Frames) =>
              ~U32Gt1(mapcounts[e.pfn])

\* C20: handle_page_fault on a COW-protected entry whose frame has a count
\* above 1, called for a write while no frame is free, does not report success
\* and leaves the page tables, every mapcount and the TLB as they were.
C20_CowOutOfMemory ==
    [][(/\ last'.op = "handle_page_fault"
        /\ CowProtected(Pte(ptbr, last'.vpn))
        /\ CowFault(Pte(ptbr, last'.vpn), last'.rw)
        /\ U32Gt1(mapcounts[Pte(ptbr, last'.vpn).pfn])
        /\ FreeFrames(mapcounts) = {}) =>
         /\ last'.ret = 0
         /\ UNCHANGED <<heap, procs, mapcounts, tlb>>]_vars

====
